---- MODULE Spec2Model ----
(***************************************************************************)
(* Model of HistoricalData (src/HistoricalData.py): construction           *)
(* (__init__), and retrieve_data split at its network calls: the product   *)
(* catalog request of _ticker_checker, the single candle request of the    *)
(* request_volume <= 300 branch, and the candle request of each iteration  *)
(* of the chunk loop.  Instants are seconds on the naive datetime axis.    *)
(* A well-formed date string 'YYYY-MM-DD-HH-MM' is represented by the      *)
(* number of minutes it denotes; strptime turns it into seconds.           *)
(* A candle row is [time, val]: val stands for the five value columns      *)
(* (low, high, open, close, volume) taken together.                        *)
(***************************************************************************)
EXTENDS Integers, Sequences, FiniteSets, TLC

\* ---------------------------------------------------------------- bounds
\* Largest number of candle rows the remote delivers over one retrieval.
MaxRows == 2

\* ------------------------------------------------------ program constants
\* keys of the GRANULARITIES dict
GRANULARITIES == {60, 300, 900, 1800, 3600, 7200, 21600, 86400}
max_per_mssg == 300
SuccessCodes == {200, 201, 202, 203, 204}
MalformedCodes == {400, 401, 404}
ConnectionCodes == {403, 500, 501}

\* ------------------------------------------------------------ input sets
\* A date argument: a well-formed 'YYYY-MM-DD-HH-MM' string denoting that many
\* minutes, a string strptime rejects, None, or a value that is no str.
Date(m) == [kind |-> "date", minutes |-> m]
Malformed == [kind |-> "malformed", minutes |-> 0]
None == [kind |-> "None", minutes |-> 0]
NotAStr == [kind |-> "other", minutes |-> 0]
\* A granularity argument: an int, or a value that is no int (60.0).
IntArg(n) == [kind |-> "int", value |-> n]
NotAnInt == [kind |-> "float", value |-> 60]
TickerInputs == {"BTC-USD", "not-a-str"}
GranularityInputs == {IntArg(60), IntArg(300), IntArg(3600), IntArg(120), NotAnInt}
\* 600 min = ten hours, 1501 min / 300 s = 300.2, 2999 min / 300 s = 599.8
StartInputs == {Date(0), Date(610), Malformed, NotAStr}
EndInputs == {None, Malformed} \cup {Date(m) : m \in {0, 10, 300, 301, 600, 1501, 2999}}
NowInputs == {600}                 \* datetime.today(), in minutes
OffsetInputs == {0, 3600}          \* local time minus UTC, seconds
StatusInputs == {200, 204, 400, 401, 404, 403, 500, 501, 429}
ValInputs == {1, 2}

VARIABLES
    pc,              \* position of the caller: new, constructed, awaitCatalog,
                     \* awaitSingle, awaitChunk, returned, raised
    ticker, granularity, start_date, end_date,   \* arguments, then self.*
    now,             \* the clock read by datetime.today()
    utcoffset,       \* the local timezone used by datetime.timestamp()
    catalogRequests, \* number of GETs of /products issued
    requests,        \* candle requests issued, in order
    responded,       \* number of candle responses handled
    status,          \* status code of the last candle response, 0 if none
    i,               \* loop index of the chunk loop
    data,            \* the local DataFrame accumulated by the chunk loop / the
                     \* rows of the single response
    emptyChunks,     \* successful chunk responses with no candles
    delivered,       \* candle rows received in successful responses
    result,          \* the returned Series (rows in order)
    error            \* the exception raised, "none" if none

vars == <<pc, ticker, granularity, start_date, end_date, now, utcoffset,
          catalogRequests, requests, responded, status, i, data, emptyChunks,
          delivered, result, error>>

\* ------------------------------------------------------------- helpers
IsStr(x) == x.kind \in {"date", "malformed"}
\* datetime.strptime(s, '%Y-%m-%d-%H-%M'): defined on well-formed strings
WellFormed(s) == s.kind = "date"
strptime(s) == s.minutes * 60
\* datetime.today().strftime("%Y-%m-%d-%H-%M"): the clock, to the minute
TodayString(n) == Date(n)
\* int(datetime.timestamp()) of a naive local datetime
Timestamp(t) == t - utcoffset

Init ==
    /\ pc = "new"
    /\ ticker \in TickerInputs
    /\ granularity \in GranularityInputs
    /\ start_date \in StartInputs
    /\ end_date \in EndInputs
    /\ now \in NowInputs
    /\ utcoffset \in OffsetInputs
    /\ catalogRequests = 0
    /\ requests = <<>>
    /\ responded = 0
    /\ status = 0
    /\ i = 0
    /\ data = <<>>
    /\ emptyChunks = 0
    /\ delivered = 0
    /\ result = <<>>
    /\ error = "none"

Raise(e) ==
    /\ pc' = "raised"
    /\ error' = e

\* The exception __init__ raises for these arguments, "none" if it returns.
InitError(tk, g, sd, ed) ==
    IF ~(tk # "not-a-str" /\ IsStr(sd)) THEN "TypeError"
    ELSE IF ~(IsStr(ed) \/ ed = None) THEN "TypeError"
    ELSE IF g.kind # "int" THEN "TypeError"
    ELSE IF g.value \notin GRANULARITIES THEN "ValueError"
    ELSE IF ed = None THEN "none"
    ELSE IF ~WellFormed(ed) THEN "ValueError"
    ELSE IF ~WellFormed(sd) THEN "ValueError"
    ELSE IF strptime(sd) >= strptime(ed) THEN "ValueError"
    ELSE "none"

\* HistoricalData.__init__
Construct ==
    /\ pc = "new"
    /\ LET e == InitError(ticker, granularity, start_date, end_date) IN
       IF e # "none"
       THEN /\ Raise(e)
            /\ UNCHANGED end_date
       ELSE /\ pc' = "constructed"
            /\ end_date' = IF end_date = None THEN TodayString(now) ELSE end_date
            /\ UNCHANGED error
    /\ UNCHANGED <<ticker, granularity, start_date, now, utcoffset,
                   catalogRequests, requests, responded, status, i, data,
                   emptyChunks, delivered, result>>

\* ------------------------------------------------------ Window Planner
Abs(x) == IF x < 0 THEN 0 - x ELSE x
\* start, end of retrieve_data (lines 124-125)
start == strptime(start_date)
end == strptime(end_date)
\* lines 126-128: abs(seconds) / granularity is a float; pd.date_range takes
\* it as periods, truncates it with int() and returns that many instants.
RequestVolume(s, e, g) == Abs(e - s) \div g
request_volume == RequestVolume(start, end, granularity.value)
\* mutant: the boundary volume goes to the chunk loop
SingleShotStrict(n) == n < max_per_mssg
SingleShot(n) == n <= max_per_mssg
\* mutant: the loop runs without the extra iteration
NumChunksNoExtra(n) == n \div max_per_mssg
\* range(int(request_volume / max_per_mssg) + 1)
NumChunks(n) == (n \div max_per_mssg) + 1
\* the request of the request_volume <= 300 branch (lines 132-134)
SingleRequest ==
    [start |-> Timestamp(start), end |-> Timestamp(end),
     limit |-> request_volume, form |-> "unix"]
provisional_start(k) == start + k * (granularity.value * max_per_mssg)
\* mutant: the end of the window is one message short of the next start
provisional_endShort(k) ==
    start + (k + 1) * (granularity.value * (max_per_mssg - 1))
provisional_end(k) == start + (k + 1) * (granularity.value * max_per_mssg)
ChunkLimit(n) == n
\* the request of iteration k of the chunk loop (lines 167-173)
ChunkRequest(k) ==
    [start |-> provisional_start(k), end |-> provisional_end(k),
     limit |-> ChunkLimit(request_volume), form |-> "datetime"]

\* ------------------------------------------------------- Chunk Fetcher
\* mutant: 403 is handled by the first error branch
ErrorForMoved(st) ==
    IF st \in MalformedCodes \cup {403} THEN "HTTPError"
    ELSE IF st \in ConnectionCodes THEN "ConnectionError"
    ELSE "RequestException"
\* the exception of the three non-success branches
ErrorFor(st) ==
    IF st \in MalformedCodes THEN "HTTPError"
    ELSE IF st \in ConnectionCodes THEN "ConnectionError"
    ELSE "RequestException"

\* Rows a response may carry: times below, at the ends of, and above the
\* requested window.
RowTimes == {start - granularity.value, start, end, end + granularity.value}
Rows == [time : RowTimes, val : ValInputs]
RowSeqs(k) == UNION {[1..m -> Rows] : m \in 0..k}

\* ----------------------------------------------------- Series Assembler
\* mutant: only the left bound is applied
betweenLeftOnly(t, lo, hi) == lo <= t
\* Series.between(left, right), inclusive on both sides
between(t, lo, hi) == lo <= t /\ t <= hi
Filter(d) == SelectSeq(d, LAMBDA r : between(r.time, start, end))
Orderings(n) ==
    {f \in [1..n -> 1..n] : \A a, b \in 1..n : a # b => f[a] # f[b]}
\* sort_index(ascending=True): the default sort is not stable, so rows with
\* equal time may come out in any order.
sort_index(d) ==
    {[k \in 1..Len(d) |-> d[f[k]]] : f \in
        {g \in Orderings(Len(d)) :
            \A a, b \in 1..Len(d) : a < b => d[g[a]].time <= d[g[b]].time}}
\* drop_duplicates(subset=None, keep='first') after set_index("time"): the
\* index is not a column, so rows are compared on their value columns only.
IsDuplicate(d, k) == \E j \in 1..(k - 1) : d[j].val = d[k].val
RECURSIVE KeepFrom(_, _)
KeepFrom(d, k) ==
    IF k > Len(d) THEN <<>>
    ELSE IF IsDuplicate(d, k) THEN KeepFrom(d, k + 1)
    ELSE <<d[k]>> \o KeepFrom(d, k + 1)
drop_duplicates(d) == KeepFrom(d, 1)
\* lines 141-150 and 199-205
Assemble(d) ==
    IF d = <<>>
    THEN \* data.columns = [...] on a frame without columns: Length mismatch
         /\ Raise("ValueError")
         /\ UNCHANGED result
    ELSE /\ \E srt \in sort_index(Filter(d)) : result' = drop_duplicates(srt)
         /\ pc' = "returned"
         /\ UNCHANGED error

\* ------------------------------------------------------------ retrieve_data
\* retrieve_data up to the GET of _ticker_checker (line 80)
RetrieveData ==
    /\ pc = "constructed"
    /\ catalogRequests' = catalogRequests + 1
    /\ pc' = "awaitCatalog"
    /\ UNCHANGED <<ticker, granularity, start_date, end_date, now, utcoffset,
                   requests, responded, status, i, data, emptyChunks,
                   delivered, result, error>>

\* The rest of _ticker_checker, the date cleaning and the planning, up to the
\* first candle GET (lines 81-136 / 175).
CatalogResponse(st, listed) ==
    /\ pc = "awaitCatalog"
    /\ IF st \notin SuccessCodes
       THEN Raise(ErrorFor(st)) /\ UNCHANGED <<requests, i>>
       ELSE IF ~listed
       THEN Raise("ValueError") /\ UNCHANGED <<requests, i>>
       ELSE IF ~WellFormed(start_date)
       THEN \* _date_cleaner(self.start_date): strptime raises
            Raise("ValueError") /\ UNCHANGED <<requests, i>>
       ELSE IF SingleShot(request_volume)
       THEN /\ requests' = Append(requests, SingleRequest)
            /\ pc' = "awaitSingle"
            /\ UNCHANGED <<error, i>>
       ELSE /\ requests' = Append(requests, ChunkRequest(0))
            /\ i' = 0
            /\ pc' = "awaitChunk"
            /\ UNCHANGED error
    /\ UNCHANGED <<ticker, granularity, start_date, end_date, now, utcoffset,
                   catalogRequests, responded, status, data, emptyChunks,
                   delivered, result>>

\* lines 136-162
SingleResponse(st, rows) ==
    /\ pc = "awaitSingle"
    /\ responded' = responded + 1
    /\ status' = st
    /\ IF st \in SuccessCodes
       THEN /\ data' = rows
            /\ delivered' = Len(rows)
            /\ Assemble(rows)
       ELSE /\ Raise(ErrorFor(st))
            /\ UNCHANGED <<data, delivered, result>>
    /\ UNCHANGED <<ticker, granularity, start_date, end_date, now, utcoffset,
                   catalogRequests, requests, i, emptyChunks>>

\* One iteration of the chunk loop from its response on (lines 177-198), then
\* either the next iteration's GET or, after the last one, lines 199-205.
ChunkResponse(st, rows) ==
    /\ pc = "awaitChunk"
    /\ responded' = responded + 1
    /\ status' = st
    /\ IF st \in SuccessCodes
       THEN /\ data' = data \o rows
            /\ delivered' = delivered + Len(rows)
            /\ emptyChunks' = IF rows = <<>> THEN emptyChunks + 1 ELSE emptyChunks
            /\ IF i + 1 < NumChunks(request_volume)
               THEN /\ i' = i + 1
                    /\ requests' = Append(requests, ChunkRequest(i + 1))
                    /\ UNCHANGED <<pc, error, result>>
               ELSE /\ Assemble(data \o rows)
                    /\ UNCHANGED <<i, requests>>
       ELSE /\ Raise(ErrorFor(st))
            /\ data' = <<>>
            /\ UNCHANGED <<requests, i, emptyChunks, delivered, result>>
    /\ UNCHANGED <<ticker, granularity, start_date, end_date, now, utcoffset,
                   catalogRequests>>

Next ==
    \/ Construct
    \/ RetrieveData
    \/ \E st \in StatusInputs, listed \in BOOLEAN : CatalogResponse(st, listed)
    \/ \E st \in StatusInputs, rows \in RowSeqs(MaxRows) : SingleResponse(st, rows)
    \/ \E st \in StatusInputs, rows \in RowSeqs(MaxRows - delivered) :
          ChunkResponse(st, rows)

Spec == Init /\ [][Next]_vars

\* ================================================================ claims
Done == pc \in {"returned", "raised"}
\* the retrieval is over and every candle response had a success status
AllSucceeded == Done /\ status \in SuccessCodes
\* the arguments passed validation and the window was planned
Planned == requests # <<>>
\* the naive local instants a request names
ReqStart(r) == IF r.form = "unix" THEN r.start + utcoffset ELSE r.start
ReqEnd(r) == IF r.form = "unix" THEN r.end + utcoffset ELSE r.end
CeilDiv(a, b) == (a + b - 1) \div b
\* expected_count of the specification: ceil(|end - start| / granularity)
CeilCount == CeilDiv(Abs(end - start), granularity.value)
FloorCount == Abs(end - start) \div granularity.value
Min(a, b) == IF a < b THEN a ELSE b
InWindow(t) == start <= t /\ t <= end
FirstIndexOf(d, t) == CHOOSE k \in 1..Len(d) :
    d[k].time = t /\ \A j \in 1..(k - 1) : d[j].time # t

\* C1: when all responses succeed, the returned Series has strictly increasing
\* timestamps, and of the rows sharing a timestamp exactly the first in chunk
\* order is in the output.
C1_UniqueIncreasing ==
    pc = "returned" =>
        /\ \A a, b \in 1..Len(result) : a < b => result[a].time < result[b].time
        /\ \A k \in 1..Len(data) : InWindow(data[k].time) =>
              \E a \in 1..Len(result) :
                  result[a] = data[FirstIndexOf(data, data[k].time)]

\* windows so far: first at start, each starting where the previous ended,
\* ascending, all but the last spanning 300 * granularity seconds
Contiguous ==
    /\ ReqStart(requests[1]) = start
    /\ \A k \in 1..Len(requests) : ReqStart(requests[k]) < ReqEnd(requests[k])
    /\ \A k \in 2..Len(requests) : ReqStart(requests[k]) = ReqEnd(requests[k - 1])
    /\ \A k \in 1..(Len(requests) - 1) :
          ReqEnd(requests[k]) - ReqStart(requests[k]) = 300 * granularity.value

\* C2 (as stated): with count = ceil(|end - start| / granularity) > 300 and all
\* responses successful, exactly floor(count/300) + 1 chunk requests are
\* issued, contiguous, ascending, all but the last spanning 300 * granularity.
C2_CeilCountPlan ==
    (AllSucceeded /\ Planned /\ start < end /\ CeilCount > 300) =>
        /\ Len(requests) = (CeilCount \div 300) + 1
        /\ Contiguous

\* C2 (amended): the same with count = floor(|end - start| / granularity).
C2_FloorCountPlan ==
    (Planned /\ start < end /\ FloorCount > 300) =>
        /\ Contiguous
        /\ Len(requests) <= (FloorCount \div 300) + 1
        /\ AllSucceeded => Len(requests) = (FloorCount \div 300) + 1

\* 2999 minutes at 300 s: 599.8, floor 599, two requests where ceil gives three
C2_Witness ==
    /\ AllSucceeded
    /\ granularity.value = 300
    /\ end - start = 2999 * 60
    /\ Len(requests) = 2

\* C3: no chunk request ends later than the requested end, and none starts at
\* or after it.
C3_LastWindowTruncated ==
    \A k \in 1..Len(requests) : requests[k].form = "datetime" =>
        /\ ReqEnd(requests[k]) <= end
        /\ ReqStart(requests[k]) < end

\* C4: every candle request carries a limit of at most 300 that equals the
\* implied count of its own window, or the overall expected count if smaller
\* (counts taken as the program takes them, rounded down).
C4_LimitAtMost300 ==
    \A k \in 1..Len(requests) :
        /\ requests[k].limit <= 300
        /\ requests[k].limit =
              Min((ReqEnd(requests[k]) - ReqStart(requests[k]))
                      \div granularity.value,
                  FloorCount)

\* C5: a retrieval in which every response succeeds returns a Series without
\* raising, also when some or all responses carry no candles.
C5_EmptyIsNoFailure ==
    AllSucceeded => pc = "returned"

\* C6: the first candle response with a non-success status ends the
\* retrieval with the error of its status family; no request follows it, no
\* retry is made and no Series is returned.
C6_FirstFailureAborts ==
    (status # 0 /\ status \notin SuccessCodes) =>
        /\ pc = "raised"
        /\ status \in {400, 401, 404} => error = "HTTPError"
        /\ status \in {403, 500, 501} => error = "ConnectionError"
        /\ status \notin {400, 401, 404, 403, 500, 501} => error = "RequestException"
        /\ Len(requests) = responded
        /\ catalogRequests = 1
        /\ result = <<>>

\* a 403 on the second chunk after the first chunk delivered candles
C6_Witness ==
    /\ pc = "raised"
    /\ status = 403
    /\ responded = 2
    /\ delivered > 0

\* the end the window will have: the clock when end_date is omitted
EffectiveEnd == IF end_date = None THEN strptime(TodayString(now)) ELSE end
InvalidInput ==
    \/ ~WellFormed(start_date)
    \/ ~(WellFormed(end_date) \/ end_date = None)
    \/ start >= EffectiveEnd

\* C7: with a malformed date or start >= end (end possibly defaulted to the
\* clock) a validation error is raised and no catalog or candle request has
\* been issued.
C7_RejectedBeforeNetwork ==
    InvalidInput =>
        /\ catalogRequests = 0
        /\ requests = <<>>
        /\ Done => (pc = "raised" /\ error \in {"ValueError", "TypeError"})

\* C8: with an implied count of at most 300, exactly one candle request is
\* issued and it names the start and the end of the whole window.
C8_SingleShot ==
    (pc # "new" /\ WellFormed(start_date) /\ start < end /\ CeilCount <= 300) =>
        /\ pc # "awaitChunk"
        /\ Len(requests) <= 1
        /\ \A k \in 1..Len(requests) :
              /\ requests[k].form = "unix"
              /\ requests[k].start = start - utcoffset
              /\ requests[k].end = end - utcoffset
        /\ (pc = "awaitSingle" \/ responded > 0) => Len(requests) = 1

\* the boundary: exactly 300 candles, answered
C8_Witness ==
    /\ pc = "returned"
    /\ FloorCount = 300
    /\ CeilCount = 300
    /\ Len(requests) = 1
    /\ utcoffset # 0

ScenarioB ==
    /\ AllSucceeded
    /\ Planned
    /\ granularity.value = 60
    /\ end - start = 10 * 3600

C10_WithinWindow ==
    pc = "returned" =>
        \A a \in 1..Len(result) :
            start <= result[a].time /\ result[a].time <= end

\* rows below and above the window were delivered, the bounds were kept
C10_Witness ==
    /\ pc = "returned"
    /\ \E k \in 1..Len(data) : data[k].time > end
    /\ \E a \in 1..Len(result) : result[a].time = end

\* C11: when all responses succeed, every timestamp that occurs in a response
\* row and lies within [start, end] occurs in the returned Series, also when
\* rows with different timestamps carry the same values.
C11_NoCandleLost ==
    pc = "returned" =>
        \A k \in 1..Len(data) : InWindow(data[k].time) =>
            \E a \in 1..Len(result) : result[a].time = data[k].time
====
